---- MODULE Spec2Model ----
(***************************************************************************)
(* The KarianaUMCP MCP bridge (src/KarianaUMCP/kariana-mcp-bridge.js) as a *)
(* state machine: the tool-list and tool-invocation handlers, sendMessage, *)
(* the socket transport with its event handlers, and the HTTP fallback.    *)
(***************************************************************************)
EXTENDS Integers, Sequences, FiniteSets, TLC

\* Number of client requests the model keeps state for.
NumCalls == 2
Calls == 1..NumCalls

Range(s) == {s[i] : i \in 1..Len(s)}

(***************************************************************************)
(* JSON / JavaScript values.  An object keeps its members in insertion     *)
(* order, as a JavaScript object does.                                     *)
(***************************************************************************)
Undefined == [kind |-> "undefined"]
JNull == [kind |-> "null"]
JBool(b) == [kind |-> "bool", b |-> b]
JNum(n) == [kind |-> "num", n |-> n]
JStr(s) == [kind |-> "str", s |-> s]
JArr(items) == [kind |-> "arr", items |-> items]
JObj(members) == [kind |-> "obj", members |-> members]
Member(k, v) == [k |-> k, v |-> v]

Keys(v) == [i \in 1..Len(v.members) |-> v.members[i].k]

HasKey(v, k) == v.kind = "obj" /\ \E i \in 1..Len(v.members) : v.members[i].k = k

\* Property read v.k; reading a property of null or undefined throws.
Get(v, k) ==
  IF HasKey(v, k)
  THEN v.members[CHOOSE i \in 1..Len(v.members) :
                   /\ v.members[i].k = k
                   /\ \A j \in (i + 1)..Len(v.members) : v.members[j].k # k].v
  ELSE Undefined

GetThrows(v) == v.kind \in {"null", "undefined"}

\* JavaScript truthiness, as used by if (x), x || y and x && y.
Truthy(v) ==
  CASE v.kind = "undefined" -> FALSE
    [] v.kind = "null" -> FALSE
    [] v.kind = "bool" -> v.b
    [] v.kind = "num" -> v.n # 0
    [] v.kind = "str" -> v.s # ""
    [] OTHER -> TRUE

\* String conversion inside a template literal or a += on a string.
JsToString(v) ==
  CASE v.kind = "undefined" -> "undefined"
    [] v.kind = "null" -> "null"
    [] v.kind = "bool" -> (IF v.b THEN "true" ELSE "false")
    [] v.kind = "num" -> ToString(v.n)
    [] v.kind = "str" -> v.s
    [] v.kind = "arr" -> "[array]"
    [] OTHER -> "[object Object]"

RECURSIVE Pad(_)
Pad(n) == IF n <= 0 THEN "" ELSE " " \o Pad(n - 1)

RECURSIVE JoinStr(_, _)
JoinStr(strs, sep) ==
  IF Len(strs) = 0 THEN ""
  ELSE IF Len(strs) = 1 THEN strs[1]
  ELSE strs[1] \o sep \o JoinStr(Tail(strs), sep)

\* JSON.stringify(v, null, 2), v at indentation ind.
RECURSIVE Stringify2(_, _)
Stringify2(v, ind) ==
  CASE v.kind = "null" -> "null"
    [] v.kind = "undefined" -> "null"
    [] v.kind = "bool" -> (IF v.b THEN "true" ELSE "false")
    [] v.kind = "num" -> ToString(v.n)
    [] v.kind = "str" -> "\"" \o v.s \o "\""
    [] v.kind = "arr" ->
         IF Len(v.items) = 0 THEN "[]"
         ELSE "[\n"
              \o JoinStr([i \in 1..Len(v.items) |->
                            Pad(ind + 2) \o Stringify2(v.items[i], ind + 2)], ",\n")
              \o "\n" \o Pad(ind) \o "]"
    [] OTHER ->
         IF Len(v.members) = 0 THEN "{}"
         ELSE "{\n"
              \o JoinStr([i \in 1..Len(v.members) |->
                            Pad(ind + 2) \o "\"" \o v.members[i].k \o "\": "
                            \o Stringify2(v.members[i].v, ind + 2)], ",\n")
              \o "\n" \o Pad(ind) \o "}"

\* Whether text s contains sub, and whether it starts with it.
Contains(s, sub) ==
  \E i \in 1..(Len(s) - Len(sub) + 1) : SubSeq(s, i, i + Len(sub) - 1) = sub

StartsWith(s, sub) == Len(s) >= Len(sub) /\ SubSeq(s, 1, Len(sub)) = sub

(***************************************************************************)
(* Bytes on the wire, as a sequence of lexical tokens: an object is        *)
(* "{" members "}", a number is a run of digits, whitespace is a token.    *)
(***************************************************************************)
LBrace == [tok |-> "lbrace"]
RBrace == [tok |-> "rbrace"]
WS == [tok |-> "ws"]
NullTok == [tok |-> "null"]
Digit(d) == [tok |-> "digit", d |-> d]
MembersTok(m) == [tok |-> "members", members |-> m]

\* JSON.stringify(v) of the values that travel as a whole message.
Serialize(v) ==
  CASE v.kind = "obj" ->
         IF Len(v.members) = 0 THEN <<LBrace, RBrace>>
         ELSE <<LBrace, MembersTok(v.members), RBrace>>
    [] v.kind = "num" /\ v.n < 10 -> <<Digit(v.n)>>
    [] v.kind = "num" -> <<Digit(v.n \div 10), Digit(v.n % 10)>>
    [] OTHER -> <<NullTok>>

\* String.prototype.trim: leading and trailing whitespace removed.
RECURSIVE TrimLeft(_)
TrimLeft(s) == IF Len(s) > 0 /\ s[1] = WS THEN TrimLeft(Tail(s)) ELSE s

RECURSIVE TrimRight(_)
TrimRight(s) ==
  IF Len(s) > 0 /\ s[Len(s)] = WS THEN TrimRight(SubSeq(s, 1, Len(s) - 1)) ELSE s

Trim(s) == TrimRight(TrimLeft(s))

RECURSIVE DigitsValue(_)
DigitsValue(s) ==
  IF Len(s) = 0 THEN 0 ELSE 10 * DigitsValue(SubSeq(s, 1, Len(s) - 1)) + s[Len(s)].d

IsNumberText(s) ==
  /\ Len(s) > 0
  /\ \A i \in 1..Len(s) : s[i].tok = "digit"
  /\ (Len(s) > 1 => s[1].d # 0)

IsObjectText(s) ==
  \/ s = <<LBrace, RBrace>>
  \/ Len(s) = 3 /\ s[1] = LBrace /\ s[2].tok = "members" /\ s[3] = RBrace

\* JSON.parse: the grammar allows whitespace around the one value.
ParseOk(s) ==
  LET t == Trim(s) IN IsObjectText(t) \/ IsNumberText(t) \/ t = <<NullTok>>

ParseVal(s) ==
  LET t == Trim(s) IN
  IF IsObjectText(t) THEN (IF Len(t) = 2 THEN JObj(<<>>) ELSE JObj(t[2].members))
  ELSE IF IsNumberText(t) THEN JNum(DigitsValue(t))
  ELSE JNull

(***************************************************************************)
(* Response Normalizer: the formatting code of the tool-call handler.      *)
(***************************************************************************)
TextBlock(text) == [type |-> "text", text |-> text]
ImageBlock(data, mimeType) == [type |-> "image", data |-> data, mimeType |-> mimeType]

\* text += (text ? '\n' : '') + piece
AppendLine(text, piece) == text \o (IF text # "" THEN "\n" ELSE "") \o piece

\* `Actors:\n${response.actors.map(a => `  - ${...}`).join('\n')}`
ActorsText(actors) ==
  "Actors:\n"
  \o JoinStr([i \in 1..Len(actors.items) |->
                "  - " \o (IF actors.items[i].kind = "str"
                           THEN actors.items[i].s
                           ELSE JsToString(Get(actors.items[i], "name")))], "\n")

\* The text accumulated from output, result and actors, in that order.
SuccessText(response) ==
  LET t1 == IF Truthy(Get(response, "output"))
            THEN JsToString(Get(response, "output")) ELSE ""
      t2 == IF Truthy(Get(response, "result"))
            THEN AppendLine(t1, "Result: " \o Stringify2(Get(response, "result"), 0))
            ELSE t1
  IN IF Truthy(Get(response, "actors"))
     THEN AppendLine(t2, ActorsText(Get(response, "actors")))
     ELSE t2

MimeTypeAlwaysPng(response) == "image/png"

\* mimeType: `image/${response.format || 'png'}`
MimeType(response) ==
  "image/" \o (IF Truthy(Get(response, "format"))
               THEN JsToString(Get(response, "format")) ELSE "png")

FormatSuccessSeparateBlocks(response) ==
  (IF Truthy(Get(response, "image"))
   THEN <<ImageBlock(JsToString(Get(response, "image")), MimeType(response))>> ELSE <<>>)
  \o (IF Truthy(Get(response, "output"))
      THEN <<TextBlock(JsToString(Get(response, "output")))>> ELSE <<>>)
  \o (IF Truthy(Get(response, "result"))
      THEN <<TextBlock("Result: " \o Stringify2(Get(response, "result"), 0))>> ELSE <<>>)
  \o (IF Truthy(Get(response, "actors"))
      THEN <<TextBlock(ActorsText(Get(response, "actors")))>> ELSE <<>>)

\* The blocks pushed for a response whose success is truthy, in push order.
FormatSuccess(response) ==
  LET t3 == SuccessText(response)
      hasImage == Truthy(Get(response, "image"))
      pushed == IF hasImage
                THEN <<ImageBlock(JsToString(Get(response, "image")), MimeType(response))>>
                ELSE <<>>
      text == IF t3 = "" /\ ~hasImage THEN Stringify2(response, 0) ELSE t3
  IN IF text # "" THEN Append(pushed, TextBlock(text)) ELSE pushed

\* The block pushed for a response whose success is present and falsy.
FormatFailureAlwaysUnknown(response) == <<TextBlock("Error: Unknown error")>>

FormatFailure(response) ==
  <<TextBlock("Error: " \o (IF Truthy(Get(response, "error"))
                            THEN JsToString(Get(response, "error"))
                            ELSE "Unknown error"))>>

\* The content array built from a response (an object or a number).
FormatContentNoRaw(response) ==
  IF Truthy(Get(response, "success")) THEN FormatSuccess(response)
  ELSE IF Truthy(Get(response, "error")) THEN FormatFailure(response)
  ELSE <<>>

FormatContentRawAsSuccess(response) ==
  IF Get(response, "success") # Undefined /\ ~Truthy(Get(response, "success"))
  THEN FormatFailure(response)
  ELSE FormatSuccess(response)

FormatContent(response) ==
  IF Get(response, "success") # Undefined
  THEN IF Truthy(Get(response, "success"))
       THEN FormatSuccess(response)
       ELSE FormatFailure(response)
  ELSE <<TextBlock(Stringify2(response, 0))>>

\* Whether the formatting code throws on this response.
FormatThrows(response) ==
  \/ GetThrows(response)
  \/ /\ Truthy(Get(response, "success"))
     /\ Truthy(Get(response, "actors"))
     /\ Get(response, "actors").kind # "arr"

TypeErrorMessage == "Cannot read properties of null"

(***************************************************************************)
(* Schema Translator: the mapping of the tool-list handler.                *)
(***************************************************************************)
SchemaTypePassThrough(value) ==
  IF Truthy(Get(value, "type")) THEN Get(value, "type") ELSE JStr("string")

\* value.type === 'integer' ? 'number' : value.type || 'string'
SchemaType(value) ==
  IF Get(value, "type") = JStr("integer") THEN JStr("number")
  ELSE IF Truthy(Get(value, "type")) THEN Get(value, "type")
  ELSE JStr("string")

Parameters(func) ==
  IF Truthy(Get(func, "parameters")) /\ Get(func, "parameters").kind = "obj"
  THEN Get(func, "parameters").members ELSE <<>>

\* Object.entries(parameters).filter(([, v]) => v.required).map(([k]) => k)
RequiredKeysAll(entries) == [i \in 1..Len(entries) |-> JStr(entries[i].k)]

RECURSIVE RequiredKeys(_)
RequiredKeys(entries) ==
  IF Len(entries) = 0 THEN <<>>
  ELSE (IF Truthy(Get(entries[1].v, "required")) THEN <<JStr(entries[1].k)>> ELSE <<>>)
       \o RequiredKeys(Tail(entries))

DescriptionAsDeclared(func) == Get(func, "description")

\* func.description || `KarianaUMCP tool: ${func.name}`
Description(func) ==
  IF Truthy(Get(func, "description")) THEN Get(func, "description")
  ELSE JStr("KarianaUMCP tool: " \o JsToString(Get(func, "name")))

ToolSchema(func) ==
  LET entries == Parameters(func) IN
  JObj(<<
    Member("name", Get(func, "name")),
    Member("description", Description(func)),
    Member("inputSchema", JObj(<<
      Member("type", JStr("object")),
      Member("properties",
             JObj([i \in 1..Len(entries) |->
                     Member(entries[i].k, JObj(<<
                       Member("type", SchemaType(entries[i].v)),
                       Member("description",
                              IF Truthy(Get(entries[i].v, "description"))
                              THEN Get(entries[i].v, "description") ELSE JStr(""))>>))])),
      Member("required", JArr(RequiredKeys(entries)))>>))>>)

\* The minimal tools returned when the catalog response is not usable.
FallbackTools == <<
  JObj(<<Member("name", JStr("ping")),
         Member("description", JStr("Test KarianaUMCP connection")),
         Member("inputSchema", JObj(<<Member("type", JStr("object")),
                                      Member("properties", JObj(<<>>))>>))>>),
  JObj(<<Member("name", JStr("list_actors")),
         Member("description", JStr("List all actors in the Unreal level")),
         Member("inputSchema", JObj(<<
           Member("type", JStr("object")),
           Member("properties", JObj(<<
             Member("class_filter", JObj(<<
               Member("type", JStr("string")),
               Member("description", JStr("Filter by actor class"))>>))>>))>>))>>),
  JObj(<<Member("name", JStr("execute_python")),
         Member("description", JStr("Execute Python code in Unreal Engine")),
         Member("inputSchema", JObj(<<
           Member("type", JStr("object")),
           Member("properties", JObj(<<
             Member("code", JObj(<<
               Member("type", JStr("string")),
               Member("description", JStr("Python code to execute"))>>))>>)),
           Member("required", JArr(<<JStr("code")>>))>>))>> ) >>

(***************************************************************************)
(* The two request handlers, as functions of what sendMessage gave them.   *)
(***************************************************************************)
NoOutcome == [state |-> "pending", value |-> Undefined, message |-> "", via |-> ""]
Returned(v, via) == [state |-> "returned", value |-> v, message |-> "", via |-> via]
Thrown(m) == [state |-> "thrown", value |-> Undefined, message |-> m, via |-> ""]

NoResult == [returned |-> FALSE, tools |-> <<>>, content |-> <<>>, isError |-> FALSE]
ToolsResult(tools) ==
  [returned |-> TRUE, tools |-> tools, content |-> <<>>, isError |-> FALSE]
ContentResultNoFlag(content, isError) ==
  [returned |-> TRUE, tools |-> <<>>, content |-> content, isError |-> FALSE]

\* { content } or { content, isError: true }
ContentResult(content, isError) ==
  [returned |-> TRUE, tools |-> <<>>, content |-> content, isError |-> isError]

\* The catch block of the tool-call handler.
CallToolCatchErrorPrefix(name, message) ==
  ContentResult(<<TextBlock("Error: " \o message)>>, TRUE)

CallToolCatch(name, message) ==
  ContentResult(<<TextBlock("Failed to call tool " \o name \o ": " \o message)>>, TRUE)

CallToolResult(name, d) ==
  IF d.state = "thrown" THEN CallToolCatch(name, d.message)
  ELSE IF FormatThrows(d.value) THEN CallToolCatch(name, TypeErrorMessage)
  ELSE ContentResult(FormatContent(d.value), FALSE)

\* The catch block of the tool-list handler.
ListToolsCatch == ToolsResult(<<>>)

ListToolsResultWithFallback(d) ==
  IF d.state = "thrown" \/ GetThrows(d.value) THEN ListToolsCatch
  ELSE IF Truthy(Get(d.value, "success")) /\ Truthy(Get(d.value, "functions"))
       THEN IF Get(d.value, "functions").kind # "arr" THEN ListToolsCatch
            ELSE ToolsResult([i \in 1..Len(Get(d.value, "functions").items) |->
                                ToolSchema(Get(d.value, "functions").items[i])]
                             \o FallbackTools)
       ELSE ToolsResult(FallbackTools)

ListToolsResult(d) ==
  IF d.state = "thrown" \/ GetThrows(d.value) THEN ListToolsCatch
  ELSE IF Truthy(Get(d.value, "success")) /\ Truthy(Get(d.value, "functions"))
       THEN IF Get(d.value, "functions").kind # "arr" THEN ListToolsCatch
            ELSE ToolsResult([i \in 1..Len(Get(d.value, "functions").items) |->
                                ToolSchema(Get(d.value, "functions").items[i])])
       ELSE ToolsResult(FallbackTools)

HandlerResult(r, d) ==
  IF r.kind = "list" THEN ListToolsResult(d) ELSE CallToolResult(r.name, d)

\* { type: name, ...args }: a spread key replaces the value in place.
RECURSIVE Spread(_, _)
Spread(members, args) ==
  IF Len(args) = 0 THEN members
  ELSE LET a == args[1] IN
       Spread(IF \E i \in 1..Len(members) : members[i].k = a.k
              THEN [i \in 1..Len(members) |->
                      IF members[i].k = a.k THEN a ELSE members[i]]
              ELSE Append(members, a),
              Tail(args))

Message(r) ==
  IF r.kind = "list" THEN JObj(<<Member("type", JStr("list_functions"))>>)
  ELSE JObj(Spread(<<Member("type", JStr(r.name))>>, r.args))

\* `Connection failed: Socket(${socketErr.message}), HTTP(${httpErr.message})`
CompositeMessageHttpOnly(socketMsg, httpMsg) == "Connection failed: HTTP(" \o httpMsg \o ")"

CompositeMessage(socketMsg, httpMsg) ==
  "Connection failed: Socket(" \o socketMsg \o "), HTTP(" \o httpMsg \o ")"

(***************************************************************************)
(* What the client and the remote server can send.                         *)
(***************************************************************************)
Opt(k, vals) == {<<>>} \cup {<<Member(k, v)>> : v \in vals}

ActorLists == {JArr(<<>>), JArr(<<JStr("Cube"), JObj(<<Member("name", JStr("Light"))>>)>>)}
ResultValues == {JNum(0), JObj(<<Member("x", JNum(1))>>)}
ImageAndFormat ==
  {<<>>, <<Member("format", JStr("jpeg"))>>, <<Member("image", JStr(""))>>,
   <<Member("image", JStr("b64"))>>,
   <<Member("image", JStr("b64")), Member("format", JStr("jpeg"))>>,
   <<Member("image", JStr("b64")), Member("format", JStr(""))>>}

\* Successful responses: every mix of output, result and image/format, and
\* the actor lists beside present and absent other fields.
SuccessResponses ==
  {JObj(<<Member("success", JBool(TRUE))>> \o o \o r \o i) :
     o \in Opt("output", {JStr(""), JStr("A")}), r \in Opt("result", ResultValues),
     i \in ImageAndFormat}
  \cup
  {JObj(<<Member("success", JBool(TRUE))>> \o o \o r \o <<Member("actors", a)>> \o i) :
     o \in Opt("output", {JStr("A")}),
     r \in Opt("result", {JObj(<<Member("x", JNum(1))>>)}),
     a \in ActorLists, i \in Opt("image", {JStr("b64")})}

Extras ==
  {<<>>, <<Member("output", JStr("A")), Member("result", JNum(1)),
          Member("actors", JArr(<<JStr("Cube")>>)), Member("image", JStr("b64"))>>}

FailureResponses ==
  {JObj(<<Member("success", JBool(FALSE))>> \o e \o x) :
     e \in Opt("error", {JStr(""), JStr("Actor not found")}), x \in Extras}

RawResponses ==
  {JObj(x) : x \in Extras} \cup {JObj(<<Member("error", JStr("Actor not found"))>>)}

ToolResponses == SuccessResponses \cup FailureResponses \cup RawResponses

Catalog ==
  JArr(<<
    JObj(<<Member("name", JStr("spawn_actor")),
           Member("description", JStr("Spawn an actor")),
           Member("parameters", JObj(<<
             Member("a", JObj(<<Member("type", JStr("integer")),
                                Member("required", JBool(TRUE)),
                                Member("description", JStr("count"))>>)),
             Member("b", JObj(<<Member("type", JStr("boolean")),
                                Member("required", JBool(FALSE))>>)),
             Member("c", JObj(<<>>)),
             Member("d", JObj(<<Member("type", JStr("array")),
                                Member("required", JBool(TRUE))>>)),
             Member("e", JObj(<<Member("type", JStr("object"))>>)),
             Member("f", JObj(<<Member("type", JStr("number")),
                                Member("required", JBool(TRUE))>>)),
             Member("g", JObj(<<Member("type", JStr("string")),
                                Member("description", JStr("label"))>>))>>))>>),
    JObj(<<Member("name", JStr("ping"))>>),
    JObj(<<Member("name", JStr("list_actors")),
           Member("description", JStr("")),
           Member("parameters", JObj(<<>>))>>)>>)

CatalogResponses ==
  {JObj(s \o f) :
     s \in Opt("success", {JBool(TRUE), JBool(FALSE)}),
     f \in Opt("functions", {Catalog, JArr(<<>>)})}
  \cup {JObj(<<Member("success", JBool(FALSE)), Member("error", JStr("Not ready"))>>)}

Responses(kind) == IF kind = "list" THEN CatalogResponses ELSE ToolResponses

SimpleResponse == JObj(<<Member("success", JBool(TRUE)), Member("output", JStr("A"))>>)

\* Byte streams that are not one bare serialized object.
FramedTexts ==
  {Serialize(SimpleResponse) \o <<WS>>,
   <<WS>> \o Serialize(SimpleResponse),
   Serialize(SimpleResponse) \o Serialize(JObj(<<>>)),
   <<Digit(7)>>, <<Digit(1), Digit(2)>>, <<Digit(0), Digit(1)>>,
   <<NullTok>>, <<WS>>, <<RBrace>>, <<>>}

WireTexts(kind) == {Serialize(r) : r \in Responses(kind)} \cup FramedTexts

HttpBodies(kind) ==
  {Serialize(r) : r \in Responses(kind)}
  \cup {<<LBrace>>, <<>>, <<NullTok>>, <<Digit(7)>>, Serialize(SimpleResponse) \o <<WS>>}

HttpStatuses == {200, 404, 500}
StatusOkAlways(status) == TRUE

\* response.ok
StatusOk(status) == status >= 200 /\ status <= 299

ToolCalls ==
  {[kind |-> "call", name |-> "ping", args |-> <<>>],
   [kind |-> "call", name |-> "spawn_actor",
    args |-> <<Member("actor_class", JStr("Cube"))>>],
   [kind |-> "call", name |-> "create_material",
    args |-> <<Member("name", JStr("M_Steel")), Member("type", JStr("metal"))>>]}

ListCall == [kind |-> "list", name |-> "", args |-> <<>>]
NoCall == [kind |-> "none", name |-> "", args |-> <<>>]

ConnectErrors == {"connect ECONNREFUSED"}
StreamErrors == {"read ECONNRESET"}

(***************************************************************************)
(* State.  Every variable is indexed by the client request it belongs to.  *)
(***************************************************************************)
VARIABLES
  pc,            \* where the handler is: idle, socket, http, done
  req,           \* the request being handled
  socket,        \* the connection: none, connecting, open, destroyed, closed
  wire,          \* bytes the remote end has still to send on the connection
  responseData,  \* sendToSocket's accumulated buffer
  promise,       \* the promise sendToSocket returned
  written,       \* what has been written to the connection
  http,          \* the HTTP exchange of sendToHttp
  dispatch,      \* what sendMessage returned or threw
  result,        \* what the handler returned to the client
  log            \* the socket events delivered so far

vars == <<pc, req, socket, wire, responseData, promise, written, http, dispatch,
          result, log>>

Pending == [state |-> "pending", value |-> Undefined, reason |-> ""]

\* resolve() and reject() of a promise: only the first call settles it.
Resolve(p, v) ==
  IF p.state = "pending" THEN [state |-> "fulfilled", value |-> v, reason |-> ""] ELSE p

RejectLastWins(p, m) == [state |-> "rejected", value |-> Undefined, reason |-> m]

Reject(p, m) ==
  IF p.state = "pending" THEN [state |-> "rejected", value |-> Undefined, reason |-> m]
  ELSE p

\* The HTTP exchange: the requests issued, the status and the body received,
\* the error sendToHttp threw or the value it returned.
NoHttp ==
  [state |-> "none", requests |-> <<>>, status |-> 0, body |-> <<>>,
   error |-> "", value |-> Undefined]

\* A socket event as delivered to its handler: a 'data' event carries its
\* chunk (n bytes of it) and the count of bytes the remote end had still to
\* send after it; an 'error' event carries the error's message.
Event(ev, n) == [ev |-> ev, n |-> n, bytes |-> <<>>, left |-> 0, msg |-> ""]
DataEvent(chunk, left) ==
  [ev |-> "data", n |-> Len(chunk), bytes |-> chunk, left |-> left, msg |-> ""]
ErrorEvent(m) == [ev |-> "error", n |-> 0, bytes |-> <<>>, left |-> 0, msg |-> m]

Init ==
  /\ pc = [c \in Calls |-> "idle"]
  /\ req = [c \in Calls |-> NoCall]
  /\ socket = [c \in Calls |-> "none"]
  /\ wire = [c \in Calls |-> <<>>]
  /\ responseData = [c \in Calls |-> <<>>]
  /\ promise = [c \in Calls |-> Pending]
  /\ written = [c \in Calls |-> <<>>]
  /\ http = [c \in Calls |-> NoHttp]
  /\ dispatch = [c \in Calls |-> NoOutcome]
  /\ result = [c \in Calls |-> NoResult]
  /\ log = [c \in Calls |-> <<>>]

\* The handler calls sendMessage, which calls sendToSocket: a new socket
\* with its timeout armed and connect() issued.
StartRequest(c, r) ==
  /\ pc[c] = "idle"
  /\ pc' = [pc EXCEPT ![c] = "socket"]
  /\ req' = [req EXCEPT ![c] = r]
  /\ socket' = [socket EXCEPT ![c] = "connecting"]
  /\ UNCHANGED <<wire, responseData, promise, written, http, dispatch, result, log>>

ListToolsRequest(c) == StartRequest(c, ListCall)

CallToolRequest(c) == \E r \in ToolCalls : StartRequest(c, r)

\* let responseData = '' is local to one sendToSocket call: the buffer of
\* call c is its own.
BufShared(c) == 1

Buf(c) == c

\* socket.write(JSON.stringify(message) + '\n')
SocketWriteNoNewline(w, message) == Append(w, Serialize(message))

SocketWrite(w, message) == Append(w, Serialize(message) \o <<WS>>)

\* connect callback: the message is written.  The remote end then has some
\* byte stream to send back.
SocketConnectWith(c, texts) ==
  /\ socket[c] = "connecting"
  /\ socket' = [socket EXCEPT ![c] = "open"]
  /\ written' = [written EXCEPT ![c] = SocketWrite(@, Message(req[c]))]
  /\ \E t \in texts : wire' = [wire EXCEPT ![c] = t]
  /\ log' = [log EXCEPT ![c] = Append(@, Event("connect", 0))]
  /\ UNCHANGED <<pc, req, responseData, promise, http, dispatch, result>>

SocketConnect(c) == SocketConnectWith(c, WireTexts(req[c].kind))

\* What the 'data' handler hands to JSON.parse: the accumulated buffer.
DataParseChunk(buffer, chunk) == chunk

DataParse(buffer, chunk) == buffer

\* socket.destroy() in the 'data' handler, once the buffer has parsed.
KeepOpenOnParse(s) == s

DestroyOnParse(s) == "destroyed"

\* 'data' handler, on a chunk of the next n bytes.  Bytes still undelivered
\* when a socket is destroyed are never delivered.
SocketData(c) ==
  /\ socket[c] = "open"
  /\ \E n \in 1..Len(wire[c]) :
       LET chunk == SubSeq(wire[c], 1, n)
           rest == SubSeq(wire[c], n + 1, Len(wire[c]))
           buffer == responseData[Buf(c)] \o chunk
           text == DataParse(buffer, chunk)
       IN
       /\ responseData' = [responseData EXCEPT ![Buf(c)] = buffer]
       /\ log' = [log EXCEPT ![c] = Append(@, DataEvent(chunk, Len(rest)))]
       /\ IF ParseOk(text)
          THEN /\ socket' = [socket EXCEPT ![c] = DestroyOnParse(@)]
               /\ wire' = [wire EXCEPT ![c] = IF DestroyOnParse(socket[c]) = "destroyed"
                                              THEN <<>> ELSE rest]
               /\ promise' = [promise EXCEPT ![c] = Resolve(@, ParseVal(text))]
          ELSE /\ wire' = [wire EXCEPT ![c] = rest]
               /\ UNCHANGED <<socket, promise>>
  /\ UNCHANGED <<pc, req, written, http, dispatch, result>>

\* socket.destroy() in the 'timeout' handler.
KeepOpenOnTimeout(s) == s

DestroyOnTimeout(s) == "destroyed"

\* 'timeout' handler: socket.destroy(); reject(new Error('Socket timeout')).
SocketTimeout(c) ==
  /\ socket[c] \in {"connecting", "open"}
  /\ socket' = [socket EXCEPT ![c] = DestroyOnTimeout(@)]
  /\ promise' = [promise EXCEPT ![c] = Reject(@, "Socket timeout")]
  /\ log' = [log EXCEPT ![c] = Append(@, Event("timeout", 0))]
  /\ wire' = [wire EXCEPT ![c] = IF DestroyOnTimeout(socket[c]) = "destroyed"
                                 THEN <<>> ELSE @]
  /\ UNCHANGED <<pc, req, responseData, written, http, dispatch, result>>

\* 'error' handler: reject(err).  The runtime destroys a socket that errs.
SocketError(c) ==
  /\ socket[c] \in {"connecting", "open"}
  /\ \E m \in (IF socket[c] = "connecting" THEN ConnectErrors ELSE StreamErrors) :
       /\ promise' = [promise EXCEPT ![c] = Reject(@, m)]
       /\ log' = [log EXCEPT ![c] = Append(@, ErrorEvent(m))]
  /\ socket' = [socket EXCEPT ![c] = "destroyed"]
  /\ wire' = [wire EXCEPT ![c] = <<>>]
  /\ UNCHANGED <<pc, req, responseData, written, http, dispatch, result>>

\* The remote end closes: no handler is registered for 'end'; the runtime
\* ends and destroys the socket, and 'close' follows.
SocketEnd(c) ==
  /\ socket[c] = "open"
  /\ socket' = [socket EXCEPT ![c] = "destroyed"]
  /\ wire' = [wire EXCEPT ![c] = <<>>]
  /\ log' = [log EXCEPT ![c] = Append(@, Event("end", 0))]
  /\ UNCHANGED <<pc, req, responseData, promise, written, http, dispatch, result>>

CloseHandlerOverwrites(p, buffer) ==
  IF buffer # <<>>
  THEN IF ParseOk(buffer) THEN [state |-> "fulfilled", value |-> ParseVal(buffer), reason |-> ""]
       ELSE [state |-> "rejected", value |-> Undefined, reason |-> "Invalid JSON response"]
  ELSE p

\* 'close' handler.
CloseHandler(p, buffer) ==
  IF buffer # <<>>
  THEN IF ParseOk(buffer) THEN Resolve(p, ParseVal(buffer))
       ELSE Reject(p, "Invalid JSON response")
  ELSE p

SocketClose(c) ==
  /\ socket[c] = "destroyed"
  /\ socket' = [socket EXCEPT ![c] = "closed"]
  /\ promise' = [promise EXCEPT ![c] = CloseHandler(@, responseData[Buf(c)])]
  /\ log' = [log EXCEPT ![c] = Append(@, Event("close", 0))]
  /\ UNCHANGED <<pc, req, wire, responseData, written, http, dispatch, result>>

\* const response = await sendMessage(...) is a local of one handler call:
\* the response the handler of request c formats is the one it fetched.
ResponseOfFirst(c) == 1

ResponseOf(c) == c

\* The handler's return, once sendMessage has returned or thrown.
Finish(c, d) ==
  /\ pc' = [pc EXCEPT ![c] = "done"]
  /\ dispatch' = [dispatch EXCEPT ![c] = d]
  /\ result' = [result EXCEPT ![c] = HandlerResult(req[c], dispatch'[ResponseOf(c)])]

\* sendMessage resumes after `await sendToSocket(message)`.
SocketSettled(c) == promise[c].state # "pending"

SocketFailedAlways(c) == TRUE

SocketFailed(c) == promise[c].state = "rejected"

SendMessageReturn(c) ==
  /\ pc[c] = "socket"
  /\ SocketSettled(c)
  /\ ~SocketFailed(c)
  /\ Finish(c, Returned(promise[c].value, "socket"))
  /\ UNCHANGED <<req, socket, wire, responseData, promise, written, http, log>>

\* catch (socketErr): sendToHttp issues the fetch.
SendMessageFallback(c) ==
  /\ pc[c] = "socket"
  /\ SocketSettled(c)
  /\ SocketFailed(c)
  /\ pc' = [pc EXCEPT ![c] = "http"]
  /\ http' = [http EXCEPT ![c] = [@ EXCEPT !.state = "fetching",
                                             !.requests = Append(@, Serialize(Message(req[c])))]]
  /\ UNCHANGED <<req, socket, wire, responseData, promise, written, dispatch, result, log>>

HttpFail(c, h, m) ==
  /\ http' = [http EXCEPT ![c] = [h EXCEPT !.state = "failed", !.error = m]]
  /\ Finish(c, Thrown(CompositeMessage(promise[c].reason, m)))

\* fetch rejects: the server cannot be reached.
HttpFetchFailed(c) ==
  /\ pc[c] = "http" /\ http[c].state = "fetching"
  /\ HttpFail(c, http[c], "fetch failed")
  /\ UNCHANGED <<req, socket, wire, responseData, promise, written, log>>

\* fetch resolves with a status line.
HttpResponseWith(c, statuses) ==
  /\ pc[c] = "http" /\ http[c].state = "fetching"
  /\ \E status \in statuses :
       IF StatusOk(status)
       THEN /\ http' = [http EXCEPT ![c] = [@ EXCEPT !.state = "reading",
                                                     !.status = status]]
            /\ UNCHANGED <<pc, dispatch, result>>
       ELSE HttpFail(c, [http[c] EXCEPT !.status = status],
                     "HTTP error: " \o ToString(status))
  /\ UNCHANGED <<req, socket, wire, responseData, promise, written, log>>

HttpResponse(c) == HttpResponseWith(c, HttpStatuses)

\* response.json() settles on the whole body.
HttpBodyWith(c, bodies) ==
  /\ pc[c] = "http" /\ http[c].state = "reading"
  /\ \E body \in bodies :
       IF ParseOk(body)
       THEN /\ http' = [http EXCEPT ![c] = [@ EXCEPT !.state = "ok", !.body = body,
                                                     !.value = ParseVal(body)]]
            /\ Finish(c, Returned(ParseVal(body), "http"))
       ELSE HttpFail(c, [http[c] EXCEPT !.body = body], "Unexpected end of JSON input")
  /\ UNCHANGED <<req, socket, wire, responseData, promise, written, log>>

HttpBody(c) == HttpBodyWith(c, HttpBodies(req[c].kind))

Step(c) ==
  \/ ListToolsRequest(c)
  \/ CallToolRequest(c)
  \/ SocketConnect(c)
  \/ SocketData(c)
  \/ SocketTimeout(c)
  \/ SocketError(c)
  \/ SocketEnd(c)
  \/ SocketClose(c)
  \/ SendMessageReturn(c)
  \/ SendMessageFallback(c)
  \/ HttpFetchFailed(c)
  \/ HttpResponse(c)
  \/ HttpBody(c)

\* One client request at a time.
Next == Step(1)

Spec == Init /\ [][Next]_vars

\* Requests in flight together: the client does not wait for one answer
\* before it sends the next request, and the handlers are async, so the
\* socket and HTTP events of the calls interleave freely.  Each call gets
\* one request, byte stream, status and body.
ConcCalls == {[kind |-> "call", name |-> "ping", args |-> <<>>]}
ConcTexts == {Serialize(JObj(<<>>))}
ConcBodies == {Serialize(SimpleResponse)}
ConcStatuses == {200}

StepConc(c) ==
  \/ \E r \in ConcCalls : StartRequest(c, r)
  \/ SocketConnectWith(c, ConcTexts)
  \/ SocketData(c)
  \/ SocketTimeout(c)
  \/ SocketError(c)
  \/ SocketEnd(c)
  \/ SocketClose(c)
  \/ SendMessageReturn(c)
  \/ SendMessageFallback(c)
  \/ HttpFetchFailed(c)
  \/ HttpResponseWith(c, ConcStatuses)
  \/ HttpBodyWith(c, ConcBodies)

NextConc == \E c \in Calls : StepConc(c)

SpecConc == Init /\ [][NextConc]_vars

\* Tool-list requests, one after another or in flight together: the socket
\* answers {} (no usable catalog), the HTTP server answers with the catalog.
CatalogResponse ==
  JObj(<<Member("success", JBool(TRUE)), Member("functions", Catalog)>>)
ListTexts == {Serialize(JObj(<<>>))}
ListBodies == {Serialize(CatalogResponse)}

StepList(c) ==
  \/ ListToolsRequest(c)
  \/ SocketConnectWith(c, ListTexts)
  \/ SocketData(c)
  \/ SocketTimeout(c)
  \/ SocketError(c)
  \/ SocketEnd(c)
  \/ SocketClose(c)
  \/ SendMessageReturn(c)
  \/ SendMessageFallback(c)
  \/ HttpFetchFailed(c)
  \/ HttpResponseWith(c, ConcStatuses)
  \/ HttpBodyWith(c, ListBodies)

NextList == \E c \in Calls : StepList(c)

SpecList == Init /\ [][NextList]_vars

(***************************************************************************)
(* Properties.                                                             *)
(***************************************************************************)
Finished(c) == pc[c] = "done"
HasEvent(c, ev) == \E i \in 1..Len(log[c]) : log[c][i].ev = ev

\* C1: sendMessage tries the socket first; once the socket attempt has
\* failed, for whatever reason, the HTTP request is issued; when HTTP fails
\* too the call throws one composite error whose message contains both the
\* socket and the HTTP failure message; when HTTP succeeds the call returns
\* the HTTP response and no error.
C1_Fallback ==
  \A c \in Calls :
    /\ pc[c] # "idle" => socket[c] # "none"
    /\ http[c].state # "none" => Len(written[c]) <= 1 /\ Len(http[c].requests) = 1
    /\ (pc[c] \in {"http", "done"} /\ promise[c].state = "rejected")
         => http[c].state # "none"
    /\ (Finished(c) /\ http[c].state = "failed")
         => /\ dispatch[c].state = "thrown"
            /\ Contains(dispatch[c].message, promise[c].reason)
            /\ Contains(dispatch[c].message, http[c].error)
    /\ (Finished(c) /\ http[c].state = "ok")
         => dispatch[c] = Returned(http[c].value, "http")

C1_Witness ==
  \E c \in Calls :
    /\ Finished(c)
    /\ promise[c].reason = "Invalid JSON response"
    /\ http[c].error = "HTTP error: 500"
    /\ dispatch[c].state = "thrown"

\* C2: the HTTP attempt exists only once the socket attempt has been
\* rejected, and a call whose socket attempt succeeded never issues it.
C2_Sequential ==
  \A c \in Calls :
    /\ http[c].state # "none" => promise[c].state = "rejected"
    /\ promise[c].state = "fulfilled"
         => http[c].state = "none" /\ http[c].requests = <<>>
    /\ (Finished(c) /\ dispatch[c].via = "socket") => http[c].state = "none"

C2_Witness ==
  \E c \in Calls :
    /\ http[c].state = "fetching"
    /\ promise[c].reason = "Socket timeout"
    /\ socket[c] = "destroyed"

IsCall(c) == req[c].kind = "call"
IsList(c) == req[c].kind = "list"
GotObject(c) == dispatch[c].state = "returned" /\ dispatch[c].value.kind = "obj"
Response(c) == dispatch[c].value
Content(c) == result[c].content
Fulfilled(v) == [state |-> "fulfilled", value |-> v, reason |-> ""]
Rejected(m) == [state |-> "rejected", value |-> Undefined, reason |-> m]
EndsWith(s, sub) ==
  Len(s) >= Len(sub) /\ SubSeq(s, Len(s) - Len(sub) + 1, Len(s)) = sub

\* C3: a tool invocation in flight can always take a further step (it never
\* hangs unsettled), and one that has returned holds at least one content
\* block.
C3_AlwaysReturns ==
  \A c \in Calls :
    IsCall(c) =>
      /\ pc[c] \in {"socket", "http"} => ENABLED Step(c)
      /\ Finished(c) => result[c].returned /\ Len(Content(c)) >= 1

\* C4: once the socket timeout has fired, the socket attempt's outcome is
\* the timeout rejection, and stays so whatever the later close finds in
\* the buffer.
C4_TimeoutWins ==
  \A c \in Calls : HasEvent(c, "timeout") => promise[c] = Rejected("Socket timeout")

C4_Witness ==
  \E c \in Calls :
    /\ Len(log[c]) >= 2
    /\ log[c][Len(log[c]) - 1].ev = "timeout"
    /\ log[c][Len(log[c])].ev = "close"
    /\ responseData[c] # <<>>
    /\ promise[c] = Rejected("Socket timeout")

\* C5: a tool-list request whose catalog could not be fetched (both
\* transports failed) or whose catalog response is unusable (success not
\* true, or functions missing) returns the static fallback catalog.
C5_FallbackCatalog ==
  \A c \in Calls :
    (/\ Finished(c) /\ IsList(c)
     /\ \/ dispatch[c].state = "thrown"
        \/ /\ GotObject(c)
           /\ ~(Truthy(Get(Response(c), "success")) /\ HasKey(Response(c), "functions")))
      => /\ result[c].tools = FallbackTools
         /\ \E i \in 1..Len(result[c].tools) :
              Get(result[c].tools[i], "name") = JStr("ping")
         /\ \E i \in 1..Len(result[c].tools) :
              Get(result[c].tools[i], "name") = JStr("execute_python")

SuccessCase(c) ==
  /\ Finished(c) /\ IsCall(c) /\ GotObject(c)
  /\ Get(Response(c), "success") = JBool(TRUE)

\* C6: for a successful response the text block comes first and the image
\* block, when image is present, after it.
C6_TextThenImage ==
  \A c \in Calls :
    SuccessCase(c) =>
      \A i, j \in 1..Len(Content(c)) :
        (Content(c)[i].type = "text" /\ Content(c)[j].type = "image") => i < j

FailureCase(c) ==
  /\ Finished(c) /\ IsCall(c) /\ GotObject(c)
  /\ Get(Response(c), "success") = JBool(FALSE)

OneTextBlock(c) == Len(Content(c)) = 1 /\ Content(c)[1].type = "text"

\* C7 (as stated): a composite transport failure and a remote failure are
\* both rendered as one text block that begins with "Error: ".
C7_ErrorPrefix ==
  \A c \in Calls :
    (Finished(c) /\ IsCall(c) /\ (dispatch[c].state = "thrown" \/ FailureCase(c)))
      => OneTextBlock(c) /\ StartsWith(Content(c)[1].text, "Error: ")

\* C7 (amended): a remote failure (success false) is rendered as one text
\* block that begins with "Error: "; a composite transport failure is
\* rendered as one text block that begins with "Failed to call tool <name>: "
\* and carries the composite message, with isError set.
C7_FailureText ==
  \A c \in Calls :
    /\ FailureCase(c)
         => OneTextBlock(c) /\ StartsWith(Content(c)[1].text, "Error: ")
    /\ (Finished(c) /\ IsCall(c) /\ dispatch[c].state = "thrown")
         => /\ OneTextBlock(c)
            /\ StartsWith(Content(c)[1].text, "Failed to call tool " \o req[c].name \o ": ")
            /\ EndsWith(Content(c)[1].text, dispatch[c].message)
            /\ Contains(dispatch[c].message, "Connection failed")
            /\ result[c].isError

C7_Witness ==
  \E c \in Calls :
    /\ Finished(c) /\ IsCall(c) /\ dispatch[c].state = "thrown"
    /\ req[c].name = "spawn_actor"
    /\ http[c].error = "fetch failed"
    /\ result[c].isError

\* C8 (as stated): for success false the result is exactly one text block,
\* "Error: " followed by the error string, or "Error: Unknown error" when
\* error is absent.
C8_ErrorOrAbsent ==
  \A c \in Calls :
    FailureCase(c) =>
      Content(c) = <<TextBlock("Error: " \o (IF HasKey(Response(c), "error")
                                             THEN Get(Response(c), "error").s
                                             ELSE "Unknown error"))>>

\* C8 (amended): for success false the result is exactly one text block,
\* "Error: " followed by the error string, or "Error: Unknown error" when
\* error is absent or the empty string; other fields change nothing.
C8_ErrorOrUnknown ==
  \A c \in Calls :
    FailureCase(c) =>
      Content(c) = <<TextBlock("Error: " \o (IF /\ HasKey(Response(c), "error")
                                                /\ Get(Response(c), "error").s # ""
                                             THEN Get(Response(c), "error").s
                                             ELSE "Unknown error"))>>

C8_Witness ==
  \E c \in Calls :
    /\ FailureCase(c)
    /\ Get(Response(c), "error") = JStr("Actor not found")
    /\ HasKey(Response(c), "image") /\ HasKey(Response(c), "output")
    /\ Content(c) = <<TextBlock("Error: Actor not found")>>

WellFormedBlock(b) ==
  \/ b.type = "text" /\ b.text # ""
  \/ b.type = "image" /\ b.data # ""

\* C9: for every response object, whatever fields it has, the invocation
\* returns at least one content block, each well formed, and the
\* formatting does not fail.
C9_Totality ==
  \A c \in Calls :
    (Finished(c) /\ IsCall(c) /\ GotObject(c))
      => /\ result[c].returned
         /\ ~result[c].isError
         /\ Len(Content(c)) >= 1
         /\ \A i \in 1..Len(Content(c)) : WellFormedBlock(Content(c)[i])

C9_Witness ==
  \E c \in Calls :
    /\ Finished(c) /\ IsCall(c) /\ GotObject(c)
    /\ Response(c) = JObj(<<>>)
    /\ Content(c) = <<TextBlock("{}")>>

RECURSIVE Received(_, _)
Received(l, i) == IF i = 0 THEN 0 ELSE l[i].n + Received(l, i - 1)

OnlyData(c) ==
  /\ Len(log[c]) >= 1
  /\ log[c][1].ev = "connect"
  /\ \A i \in 2..Len(log[c]) : log[c][i].ev = "data"

\* C10: while only data events have arrived and the buffer after no earlier
\* chunk parsed, the attempt is unsettled as long as the buffer does not
\* parse, and is resolved with the parse of the whole buffer once it does.
C10_Framing ==
  \A c \in Calls :
    (/\ OnlyData(c)
     /\ \A i \in 2..(Len(log[c]) - 1) :
          ~ParseOk(SubSeq(responseData[c], 1, Received(log[c], i))))
      => IF ParseOk(responseData[c])
         THEN promise[c] = Fulfilled(ParseVal(responseData[c]))
         ELSE promise[c].state = "pending"

C10_Witness ==
  \E c \in Calls :
    /\ OnlyData(c)
    /\ Len(log[c]) = 4
    /\ Len(responseData[c]) = 3
    /\ promise[c] = Fulfilled(ParseVal(responseData[c]))
    /\ promise[c].value.kind = "obj"

\* C11: the message written for a tool invocation is one flat object whose
\* type is the invoked tool name and whose other fields are exactly the
\* invocation's arguments.
C11_WireMessage ==
  \A c \in Calls :
    (IsCall(c) /\ written[c] # <<>>) =>
      LET m == ParseVal(written[c][1])
          args == req[c].args
      IN
      /\ ParseOk(written[c][1]) /\ m.kind = "obj"
      /\ Get(m, "type") = JStr(req[c].name)
      /\ \A i \in 1..Len(args) : args[i].k # "type" => Get(m, args[i].k) = args[i].v
      /\ \A j \in 1..Len(m.members) :
           \/ m.members[j].k = "type"
           \/ \E i \in 1..Len(args) : args[i].k = m.members[j].k

\* C12: a socket attempt that has settled (resolved or rejected, by a
\* successful parse, the close handler, a timeout or an error) no longer has
\* an open connection: its socket is destroyed or closed.
C12_NoLeak ==
  \A c \in Calls :
    promise[c].state # "pending" => socket[c] \in {"destroyed", "closed"}

C12_Witness ==
  \E c \in Calls :
    /\ promise[c] = Rejected("Socket timeout")
    /\ HasEvent(c, "data")
    /\ socket[c] = "destroyed"

\* A finished tool-list request whose catalog response was translated.
Translated(c) ==
  /\ Finished(c) /\ IsList(c) /\ GotObject(c)
  /\ Truthy(Get(Response(c), "success"))
  /\ Get(Response(c), "functions").kind = "arr"
Functions(c) == Get(Response(c), "functions").items
Tools(c) == result[c].tools
InputSchema(tool) == Get(tool, "inputSchema")
Property(tool, k) == Get(Get(InputSchema(tool), "properties"), k)
Declared(func) == Get(func, "parameters").members

\* C13: for every catalog parameter the derived property type is "number"
\* when the declared type is "integer", "string" when no type is declared,
\* and the declared type itself for every other declared type.
C13_TypeMapping ==
  \A c \in Calls :
    Translated(c) =>
      /\ Len(Tools(c)) = Len(Functions(c))
      /\ \A i \in 1..Len(Functions(c)) :
           HasKey(Functions(c)[i], "parameters") =>
             \A j \in 1..Len(Declared(Functions(c)[i])) :
               LET p == Declared(Functions(c)[i])[j]
                   declared == Get(p.v, "type")
                   derived == Get(Property(Tools(c)[i], p.k), "type")
               IN
               /\ declared = JStr("integer") => derived = JStr("number")
               /\ declared = Undefined => derived = JStr("string")
               /\ (declared.kind = "str" /\ declared # JStr("integer"))
                    => derived = declared

C13_Witness ==
  \E c \in Calls :
    /\ Translated(c)
    /\ Len(Tools(c)) >= 1
    /\ Get(Property(Tools(c)[1], "a"), "type") = JStr("number")
    /\ Get(Property(Tools(c)[1], "c"), "type") = JStr("string")
    /\ Get(Property(Tools(c)[1], "d"), "type") = JStr("array")

RECURSIVE KeysRequiredTrue(_)
KeysRequiredTrue(params) ==
  IF params = <<>> THEN <<>>
  ELSE (IF Get(params[1].v, "required") = JBool(TRUE)
        THEN <<JStr(params[1].k)>> ELSE <<>>)
       \o KeysRequiredTrue(Tail(params))

\* C14: the derived required list is the keys of the parameters declared
\* required: true, in catalog order; every parameter, required or not, is a
\* key of properties.
C14_RequiredList ==
  \A c \in Calls :
    Translated(c) =>
      \A i \in 1..Len(Functions(c)) :
        HasKey(Functions(c)[i], "parameters") =>
          LET params == Declared(Functions(c)[i])
              schema == InputSchema(Tools(c)[i])
          IN
          /\ Get(schema, "required") = JArr(KeysRequiredTrue(params))
          /\ Keys(Get(schema, "properties")) = [j \in 1..Len(params) |-> params[j].k]

C14_Witness ==
  \E c \in Calls :
    /\ Translated(c)
    /\ Len(Tools(c)) >= 1
    /\ Get(InputSchema(Tools(c)[1]), "required") = JArr(<<JStr("a"), JStr("d"), JStr("f")>>)
    /\ Len(Get(InputSchema(Tools(c)[1]), "properties").members) = 7

TextBlocks(c) == {i \in 1..Len(Content(c)) : Content(c)[i].type = "text"}

\* C16: for a successful response carrying a result field, whatever its
\* value, the content has one text block, whose text contains "Result: "
\* followed by the serialized result, after the output and a newline when
\* the response has output text.
C16_ResultText ==
  \A c \in Calls :
    (SuccessCase(c) /\ HasKey(Response(c), "result")) =>
      LET line == "Result: " \o Stringify2(Get(Response(c), "result"), 0) IN
      /\ Cardinality(TextBlocks(c)) = 1
      /\ \A i \in TextBlocks(c) :
           /\ Contains(Content(c)[i].text, line)
           /\ Truthy(Get(Response(c), "output"))
                => StartsWith(Content(c)[i].text,
                              JsToString(Get(Response(c), "output")) \o "\n" \o line)

CountEvents(c, ev) == Cardinality({i \in 1..Len(log[c]) : log[c][i].ev = ev})

\* C18: a dispatch makes at most one socket attempt and at most one HTTP
\* request; the socket attempt has one connection, never re-opened; the
\* JSON text of the message followed by one newline is written on it once,
\* when the connection is established and not before.
C18_SingleAttempt ==
  \A c \in Calls :
    /\ pc[c] # "idle" => socket[c] # "none"
    /\ socket[c] = "connecting" => log[c] = <<>> /\ written[c] = <<>>
    /\ CountEvents(c, "connect") <= 1
    /\ Len(http[c].requests) <= 1
    /\ Len(written[c]) = CountEvents(c, "connect")
    /\ written[c] # <<>> => written[c][1] = Serialize(Message(req[c])) \o <<WS>>
    /\ http[c].state # "none" => Len(http[c].requests) = 1

C18_Witness ==
  \E c \in Calls :
    /\ Finished(c)
    /\ Len(written[c]) = 1
    /\ EndsWith(written[c][1], <<RBrace, WS>>)
    /\ http[c].state = "ok"
    /\ Len(http[c].requests) = 1

\* The bytes received by the first i events of a log.
RECURSIVE BytesUpTo(_, _)
BytesUpTo(l, i) == IF i = 0 THEN <<>> ELSE BytesUpTo(l, i - 1) \o l[i].bytes

\* C19: a resolved socket attempt was resolved by the 'data' handler at the
\* first data event after which the accumulated buffer, trimmed, was valid
\* JSON; its value is the parse of the buffer at that event; the connection
\* was destroyed then, so that no later data event exists and the buffer
\* holds nothing beyond that event's bytes.
C19_FirstParseWins ==
  \A c \in Calls :
    promise[c].state = "fulfilled" =>
      \E i \in 1..Len(log[c]) :
        /\ log[c][i].ev = "data"
        /\ ParseOk(BytesUpTo(log[c], i))
        /\ promise[c].value = ParseVal(BytesUpTo(log[c], i))
        /\ \A j \in 1..(i - 1) : log[c][j].ev = "data" => ~ParseOk(BytesUpTo(log[c], j))
        /\ \A j \in (i + 1)..Len(log[c]) : log[c][j].ev = "close"
        /\ responseData[c] = BytesUpTo(log[c], i)
        /\ socket[c] \in {"destroyed", "closed"}

C19_Witness ==
  \E c \in Calls :
    /\ promise[c].state = "fulfilled"
    /\ log[c][Len(log[c])].ev = "close"
    /\ log[c][Len(log[c]) - 1].ev = "data"
    /\ log[c][Len(log[c]) - 1].left > 0
    /\ CountEvents(c, "data") >= 2

\* The remote end closed the connection, with no timeout or error, before
\* any parse had succeeded, and the 'close' handler has run.
RemoteClosed(c) ==
  /\ HasEvent(c, "end") /\ HasEvent(c, "close")
  /\ ~HasEvent(c, "timeout") /\ ~HasEvent(c, "error")

\* C20: after a remote close before any successful parse, the socket
\* attempt is settled by a final parse of the accumulated bytes: resolved
\* with the parsed value if they parse, and otherwise rejected with the
\* invalid-JSON error, after which the HTTP request is issued.
C20_CloseSettles ==
  \A c \in Calls :
    RemoteClosed(c) =>
      /\ promise[c] = IF ParseOk(responseData[c])
                      THEN Fulfilled(ParseVal(responseData[c]))
                      ELSE Rejected("Invalid JSON response")
      /\ (promise[c].state = "rejected" /\ pc[c] = "socket")
           => ENABLED SendMessageFallback(c)

\* sendToSocket run alone on the first i events of a log: the promise the
\* handlers of lines 61-95 leave after them.
RECURSIVE SoloPromise(_, _)
SoloPromise(l, i) ==
  IF i = 0 THEN Pending
  ELSE LET p == SoloPromise(l, i - 1)
           e == l[i]
           buffer == BytesUpTo(l, i)
       IN
       CASE e.ev = "data" ->
              IF ParseOk(DataParse(buffer, e.bytes))
              THEN Resolve(p, ParseVal(DataParse(buffer, e.bytes))) ELSE p
         [] e.ev = "timeout" -> Reject(p, "Socket timeout")
         [] e.ev = "error" -> Reject(p, e.msg)
         [] e.ev = "close" -> CloseHandler(p, buffer)
         [] OTHER -> p

\* sendMessage and the handler run alone on a settled socket attempt and
\* the HTTP exchange that followed it.
SoloDispatch(p, h) ==
  IF p.state = "fulfilled" THEN Returned(p.value, "socket")
  ELSE IF h.state = "ok" THEN Returned(h.value, "http")
  ELSE Thrown(CompositeMessage(p.reason, h.error))

\* C15: with several invocations in flight, under every interleaving of
\* their events, each invocation's buffer, socket outcome and returned
\* result are those of a run alone on its own event sequence.
C15_Independent ==
  \A c \in Calls :
    LET p == SoloPromise(log[c], Len(log[c])) IN
    /\ responseData[c] = BytesUpTo(log[c], Len(log[c]))
    /\ promise[c] = p
    /\ Finished(c) =>
         /\ dispatch[c] = SoloDispatch(p, http[c])
         /\ result[c] = HandlerResult(req[c], SoloDispatch(p, http[c]))

C15_Witness ==
  \E c, d \in Calls :
    /\ c # d
    /\ Finished(c) /\ dispatch[c].via = "socket" /\ CountEvents(c, "data") = 2
    /\ socket[d] = "open" /\ responseData[d] # <<>> /\ promise[d].state = "pending"
    /\ written[c] # <<>> /\ written[d] # <<>>

C21_TimeoutDestroys ==
  \A c \in Calls :
    \A i \in 1..Len(log[c]) :
      log[c][i].ev = "timeout" =>
        /\ socket[c] \in {"destroyed", "closed"}
        /\ promise[c].state = "rejected" /\ promise[c].reason = "Socket timeout"
        /\ \A j \in (i + 1)..Len(log[c]) : log[c][j].ev = "close"

C21_Witness ==
  \E c \in Calls :
    /\ Len(log[c]) >= 4
    /\ log[c][Len(log[c]) - 2].ev = "data" /\ log[c][Len(log[c]) - 2].left > 0
    /\ log[c][Len(log[c]) - 1].ev = "timeout"
    /\ log[c][Len(log[c])].ev = "close"
    /\ promise[c].reason = "Socket timeout"

\* A finished tool invocation whose response (an object or a number) has
\* no success field.
RawCase(c) ==
  /\ Finished(c) /\ IsCall(c) /\ dispatch[c].state = "returned"
  /\ Response(c).kind \in {"obj", "num"}
  /\ ~HasKey(Response(c), "success")

\* C22: a response without a success field gives exactly one text block,
\* the pretty-printed full response, and no image block, whatever other
\* fields (image included) the response has.
C22_RawResponse ==
  \A c \in Calls :
    RawCase(c) =>
      /\ Content(c) = <<TextBlock(Stringify2(Response(c), 0))>>
      /\ ~result[c].isError

C22_Witness ==
  \E c \in Calls :
    /\ RawCase(c)
    /\ Truthy(Get(Response(c), "image")) /\ Truthy(Get(Response(c), "output"))
    /\ Len(Content(c)) = 1 /\ Content(c)[1].type = "text"

ImageBlocks(c) == {i \in 1..Len(Content(c)) : Content(c)[i].type = "image"}
NoTextProduced(response) ==
  /\ ~Truthy(Get(response, "output"))
  /\ ~Truthy(Get(response, "result"))
  /\ ~Truthy(Get(response, "actors"))

\* C23: for a successful response with an image field there is exactly one
\* image block, carrying the image payload and the mime type "image/" +
\* format ("image/png" when format is absent); with no image field and no
\* text from output, result or actors the content is one text block, the
\* pretty-printed full response.
C23_ImagePresent ==
  \A c \in Calls :
    SuccessCase(c) =>
      /\ HasKey(Response(c), "image") =>
           /\ Cardinality(ImageBlocks(c)) = 1
           /\ \A i \in ImageBlocks(c) :
                Content(c)[i] =
                  ImageBlock(JsToString(Get(Response(c), "image")),
                             "image/" \o (IF HasKey(Response(c), "format")
                                          THEN JsToString(Get(Response(c), "format"))
                                          ELSE "png"))
      /\ (~HasKey(Response(c), "image") /\ NoTextProduced(Response(c)))
           => Content(c) = <<TextBlock(Stringify2(Response(c), 0))>>

\* C23, amended: for a successful response with a non-empty image there is
\* exactly one image block, carrying the image payload and the mime type
\* "image/" + format ("image/png" when format is absent or empty); with an
\* absent or empty image there is no image block, and if output, result and
\* actors produced no text either, the content is one text block, the
\* pretty-printed full response.
C23_ImageBlock ==
  \A c \in Calls :
    SuccessCase(c) =>
      /\ Truthy(Get(Response(c), "image")) =>
           /\ Cardinality(ImageBlocks(c)) = 1
           /\ \A i \in ImageBlocks(c) :
                Content(c)[i] =
                  ImageBlock(JsToString(Get(Response(c), "image")),
                             "image/" \o (IF Truthy(Get(Response(c), "format"))
                                          THEN JsToString(Get(Response(c), "format"))
                                          ELSE "png"))
      /\ ~Truthy(Get(Response(c), "image")) =>
           /\ ImageBlocks(c) = {}
           /\ NoTextProduced(Response(c))
                => Content(c) = <<TextBlock(Stringify2(Response(c), 0))>>

C23_Witness ==
  \E c \in Calls :
    /\ SuccessCase(c)
    /\ Get(Response(c), "image") = JStr("b64")
    /\ Get(Response(c), "format") = JStr("jpeg")
    /\ Truthy(Get(Response(c), "output"))
    /\ Cardinality(ImageBlocks(c)) = 1 /\ Cardinality(TextBlocks(c)) = 1
    /\ \E i \in ImageBlocks(c) : Content(c)[i].mimeType = "image/jpeg"

\* C24: an HTTP attempt issues one request; a status outside 200..299 makes
\* it fail with "HTTP error: " and the status code, without reading a
\* body; with a status in 200..299 a body that parses is returned as
\* parsed.
C24_HttpAttempt ==
  \A c \in Calls :
    http[c].state # "none" =>
      /\ http[c].requests = <<Serialize(Message(req[c]))>>
      /\ (http[c].status # 0 /\ ~(http[c].status \in 200..299)) =>
           /\ http[c].state = "failed"
           /\ http[c].error = "HTTP error: " \o ToString(http[c].status)
           /\ http[c].body = <<>> /\ http[c].value = Undefined
           /\ Finished(c) /\ dispatch[c].state = "thrown"
           /\ Contains(dispatch[c].message, ToString(http[c].status))
      /\ (http[c].status \in 200..299 /\ http[c].state \in {"ok", "failed"}
          /\ ParseOk(http[c].body)) =>
           /\ http[c].state = "ok"
           /\ http[c].value = ParseVal(http[c].body)
           /\ dispatch[c] = Returned(ParseVal(http[c].body), "http")

C24_Witness ==
  \E c \in Calls :
    /\ http[c].status = 404 /\ http[c].error = "HTTP error: 404"
    /\ promise[c].reason = "connect ECONNREFUSED"
    /\ Finished(c) /\ dispatch[c].state = "thrown"

ListFunctions == JObj(<<Member("type", JStr("list_functions"))>>)

\* C25: every tool-list request, whatever list requests came before or run
\* beside it, opens its own connection and sends its own list_functions
\* message, and what it returns is the translation of the response (or
\* failure) of its own fetch.
C25_NoCarriedState ==
  \A c \in Calls :
    IsList(c) =>
      /\ socket[c] # "none"
      /\ HasEvent(c, "connect") => written[c] = <<Serialize(ListFunctions) \o <<WS>>>>
      /\ http[c].state # "none" => http[c].requests = <<Serialize(ListFunctions)>>
      /\ Finished(c) =>
           /\ dispatch[c] = SoloDispatch(promise[c], http[c])
           /\ result[c] = ListToolsResult(dispatch[c])

C25_Witness ==
  \E c, d \in Calls :
    /\ c < d
    /\ Finished(c) /\ Finished(d)
    /\ IsList(c) /\ IsList(d)
    /\ Len(written[c]) = 1 /\ Len(written[d]) = 1
    /\ dispatch[c].state = "thrown" /\ result[c].tools = <<>>
    /\ Translated(d) /\ Len(result[d].tools) = 3

\* Whether the i-th event of a log calls resolve or reject: a 'data' event
\* after which the buffer parses, an 'error', a 'timeout', or a 'close'
\* with a non-empty buffer.
Settling(l, i) ==
  \/ l[i].ev = "data" /\ ParseOk(BytesUpTo(l, i))
  \/ l[i].ev \in {"error", "timeout"}
  \/ l[i].ev = "close" /\ BytesUpTo(l, i) # <<>>

\* What that event settles the attempt with.
SettledBy(l, i) ==
  CASE l[i].ev = "data" -> Fulfilled(ParseVal(BytesUpTo(l, i)))
    [] l[i].ev = "error" -> Rejected(l[i].msg)
    [] l[i].ev = "timeout" -> Rejected("Socket timeout")
    [] OTHER -> IF ParseOk(BytesUpTo(l, i)) THEN Fulfilled(ParseVal(BytesUpTo(l, i)))
                ELSE Rejected("Invalid JSON response")

\* C26: the socket attempt is pending until the first settling event and
\* from then on has the outcome of that first event, whatever settling
\* events follow it.
C26_SettlesOnce ==
  \A c \in Calls :
    LET l == log[c]
        settling == {i \in 1..Len(l) : Settling(l, i)}
    IN
    IF settling = {} THEN promise[c] = Pending
    ELSE \E i \in settling :
           /\ \A j \in settling : i <= j
           /\ promise[c] = SettledBy(l, i)

C26_Witness ==
  \E c \in Calls :
    /\ Len(log[c]) >= 3
    /\ log[c][Len(log[c]) - 2].ev = "data"
    /\ log[c][Len(log[c]) - 1].ev = "error"
    /\ log[c][Len(log[c])].ev = "close"
    /\ Settling(log[c], Len(log[c]))
    /\ promise[c] = Rejected("read ECONNRESET")

\* C27: a tool invocation's result has isError set exactly when sendMessage
\* threw (both transports failed) or the formatting code threw; a response
\* with success false is returned without isError.
C27_IsErrorFlag ==
  \A c \in Calls :
    (Finished(c) /\ IsCall(c)) =>
      /\ result[c].isError <=>
           (dispatch[c].state = "thrown" \/ FormatThrows(dispatch[c].value))
      /\ result[c].isError => StartsWith(Content(c)[1].text, "Failed to call tool ")
      /\ FailureCase(c) => ~result[c].isError

C27_Witness ==
  \E c \in Calls :
    /\ Finished(c) /\ IsCall(c)
    /\ dispatch[c].state = "returned" /\ dispatch[c].via = "http"
    /\ FormatThrows(dispatch[c].value)
    /\ result[c].isError

ToolNames(tools) == [i \in 1..Len(tools) |-> Get(tools[i], "name")]

\* C28: when the catalog response has success true and a functions list,
\* the tools returned are one per catalog entry, in catalog order, with the
\* entries' names; a static fallback tool is among them only if the catalog
\* lists a function of that name.
C28_OnePerEntry ==
  \A c \in Calls :
    Translated(c) =>
      /\ ToolNames(Tools(c)) = ToolNames(Functions(c))
      /\ Len(Tools(c)) = Len(Functions(c))
      /\ \A i \in 1..Len(FallbackTools) :
           LET name == Get(FallbackTools[i], "name") IN
           (\E j \in 1..Len(Tools(c)) : Get(Tools(c)[j], "name") = name)
             => \E k \in 1..Len(Functions(c)) : Get(Functions(c)[k], "name") = name

C28_Witness ==
  \E c \in Calls :
    /\ Translated(c)
    /\ ToolNames(Tools(c)) = <<JStr("spawn_actor"), JStr("ping"), JStr("list_actors")>>
    /\ dispatch[c].via = "http"

\* C29: whatever the response, a tool invocation's result holds at most two
\* content blocks: at most one text block and at most one image block.
C29_AtMostTwoBlocks ==
  \A c \in Calls :
    (Finished(c) /\ IsCall(c)) =>
      /\ Len(Content(c)) <= 2
      /\ Cardinality(TextBlocks(c)) <= 1
      /\ Cardinality(ImageBlocks(c)) <= 1
      /\ TextBlocks(c) \cup ImageBlocks(c) = 1..Len(Content(c))

C29_Witness ==
  \E c \in Calls :
    /\ Finished(c) /\ IsCall(c)
    /\ Truthy(Get(Response(c), "output"))
    /\ Truthy(Get(Response(c), "result"))
    /\ Truthy(Get(Response(c), "actors"))
    /\ Truthy(Get(Response(c), "image"))
    /\ Len(Content(c)) = 2
    /\ Cardinality(TextBlocks(c)) = 1 /\ Cardinality(ImageBlocks(c)) = 1

====
